---- MODULE Spec2Model ----
(***************************************************************************)
(* channelcheck: a syntax-tree walker that reports channel sends outside   *)
(* any select statement and make(chan T) calls without a capacity.         *)
(*                                                                         *)
(* The repository holds the analyzer twice: cmd/channelcheck/main.go (the  *)
(* binary the Makefile builds) and the older channelcheck.go at the root.  *)
(* The variable `build` says which of the two is running: Spec runs        *)
(* main.go and SpecLegacy runs channelcheck.go.  They differ in the nil    *)
(* guards of analyze and push and in the position an issue records (a      *)
(* range in main.go, the start point in channelcheck.go).                  *)
(*                                                                         *)
(* A syntax tree is the sequence of its nodes in the order ast.Walk enters *)
(* them (depth-first pre-order); a node carries its kind, its identifier   *)
(* name and the index of its parent (0 for the *ast.File root).  A node's  *)
(* source range runs from its own index to the index of its last           *)
(* descendant, so ranges nest as the source text's do.  Operand subtrees   *)
(* holding none of the kinds the rules look at are elided.                 *)
(***************************************************************************)
EXTENDS Integers, Sequences, FiniteSets, TLC

\* Bounds of the model.
MaxNodes == 5      \* syntax-tree nodes parsed in one scan, all files together
MaxFiles == 2      \* .go files met in one scan
MaxRuns == 2       \* analyze calls made on one tree (the scan's, then the caller's)

VARIABLES
  build,      \* "cmd": cmd/channelcheck/main.go, "legacy": channelcheck.go
  pc,         \* "start", "walk", "parse", "inspect", "done", "error", "panic"
  file,       \* name of the file `tree` was parsed from: .go files met so far
  tree,       \* the syntax tree parser.ParseFile built last (or is building)
  used,       \* nodes parsed so far in this scan
  caller,     \* who runs analyze: "walk", "path" (analyzePath on a file), "api"
  cur,        \* nodes of `tree` that ast.Walk has entered in this traversal
  walk,       \* ast.Walk's own recursion: nodes entered and not yet left
  stack,      \* Analyzer.stack.nodes
  issues,     \* Analyzer.issues
  err,        \* what analyzePath returned: "none", "stat", "walk", "parse"
  base,       \* history: Len(issues) when the current analyze call began
  runs,       \* history: the issues each completed analyze of `tree` appended
  invoked,    \* history: rule invocations made by the current analyze call
  pushes,     \* history: nodes push appended in the current analyze call
  pops,       \* history: nodes pop removed in the current analyze call
  lastPop     \* history: the latest nil callback: node left, stack before, after

vars == <<build, pc, file, tree, used, caller, cur, walk, stack,
          issues, err, base, runs, invoked, pushes, pops, lastPop>>

----------------------------------------------------------------------------
\* Syntax trees (go/ast), as the parser hands them to analyze.

Node(k, nm, p) == [kind |-> k, name |-> nm, parent |-> p]

\* Kinds that have no children in these trees.
IsLeafKind(k) == k \in {"Ident", "ChanType"}

\* What a node below the root can be: kind and identifier name.
Labels ==
  { <<"Other", "">>, <<"SelectStmt", "">>, <<"SendStmt", "">>, <<"CallExpr", "">>,
    <<"Ident", "make">>, <<"Ident", "new">>, <<"ChanType", "">> }

\* The children of node i in source order.
Children(t, i) ==
  LET F[n \in 0..Len(t)] ==
        IF n = 0 THEN <<>>
        ELSE IF t[n].parent = i THEN Append(F[n - 1], n) ELSE F[n - 1]
  IN F[Len(t)]

\* The path from the root to node i, root first, node i last.
RECURSIVE PathTo(_, _)
PathTo(t, i) == IF i = 0 THEN <<>> ELSE Append(PathTo(t, t[i].parent), i)

\* Proper ancestors of node i.
Ancestors(t, i) == { PathTo(t, i)[k] : k \in 1..(Len(PathTo(t, i)) - 1) }

\* The last node of the subtree rooted at i: nodes are in pre-order, so the
\* subtree is the run of nodes from i on that have i on their path.
LastOf(t, i) ==
  LET D == { j \in i..Len(t) : j = i \/ i \in Ancestors(t, j) }
  IN CHOOSE j \in D : \A k \in D : k <= j

\* A call expression always has its Fun operand.
WellFormed(t) ==
  \A i \in 1..Len(t) : t[i].kind = "CallExpr" => \E j \in 1..Len(t) : t[j].parent = i

\* node.Fun and node.Args of a call expression: ast.Walk visits Fun first.
Fun(t, i) == Children(t, i)[1]
Args(t, i) == Tail(Children(t, i))

\* An ast.Node value as the analyzer holds it: which file, which node, and
\* its dynamic type.  NilNode is the nil ast.Node; NilFile is a nil *ast.File
\* held as an ast.Node, which does not compare equal to nil.
Ref(f, t, i) == [file |-> f, n |-> i, kind |-> t[i].kind]
NilNode == [file |-> 0, n |-> 0, kind |-> "nil"]
NilFile == [file |-> 0, n |-> 0, kind |-> "File"]

----------------------------------------------------------------------------
\* The analyzer's data and rules.

SendMessage == "channel send without select statement may block indefinitely"
MakeMessage == "unbuffered channel creation detected - consider specifying buffer size"

Issue(pos, msg, sev) == [Pos |-> pos, Message |-> msg, Severity |-> sev]

\* node.Pos() and node.End() of node i: End is the offset right after it.
PosOf(t, i) == i
EndOf(t, i) == LastOf(t, i) + 1

\* Mutant of getPosition: the end is looked up from the start offset.
getPositionStartOnly(f, start, end) == [Filename |-> f, Start |-> start, End |-> start]

\* main.go: getPosition(start, end) keeps both ends of the range.
getPosition(f, start, end) == [Filename |-> f, Start |-> start, End |-> end]

\* channelcheck.go: a.fset.Position(node.Pos()) keeps the start alone.
fsetPosition(f, start) == [Filename |-> f, Start |-> start]

\* The position an issue for node i of file f records.
IssuePos(b, f, t, i) ==
  IF b = "cmd" THEN getPosition(f, PosOf(t, i), EndOf(t, i))
  ELSE fsetPosition(f, PosOf(t, i))

\* parentStack.push: main.go drops a nil node, channelcheck.go appends it.
push(b, nodes, n) ==
  IF b = "cmd" /\ n = NilNode THEN nodes ELSE Append(nodes, n)

\* Mutant of pop: drops the oldest node instead of the newest.
popFirst(nodes) ==
  IF Len(nodes) > 0 THEN Tail(nodes) ELSE nodes

\* Mutant of pop: an off-by-one guard that never pops the last node.
popKeepsRoot(nodes) ==
  IF Len(nodes) > 1 THEN SubSeq(nodes, 1, Len(nodes) - 1) ELSE nodes

\* parentStack.pop.
pop(nodes) ==
  IF Len(nodes) > 0 THEN SubSeq(nodes, 1, Len(nodes) - 1) ELSE nodes

\* Mutant of addIssue: the new issue goes to the front.
addIssuePrepend(list, issue) == <<issue>> \o list

\* Mutant of addIssue: an issue already in the list is not added again.
addIssueDedup(list, issue) ==
  IF \E k \in 1..Len(list) : list[k] = issue THEN list ELSE Append(list, issue)

\* Mutant of addIssue: appends to a new slice instead of a.issues.
addIssueReplace(list, issue) == <<issue>>

\* Analyzer.addIssue.
addIssue(list, issue) == Append(list, issue)

\* Mutant of inSelect: only the direct parent of the send is looked at.
inSelectParentOnly(nodes) ==
  Len(nodes) > 1 /\ nodes[Len(nodes) - 1].kind = "SelectStmt"

\* checkChannelSend's loop over a.stack.nodes: is any of them a select?
inSelect(nodes) ==
  \E k \in 1..Len(nodes) : nodes[k] # NilNode /\ nodes[k].kind = "SelectStmt"

\* Analyzer.checkChannelSend on node i, given the stack and the issue list;
\* the value is the new issue list.
checkChannelSend(b, f, t, i, nodes, list) ==
  IF ~inSelect(nodes)
  THEN addIssue(list, Issue(IssuePos(b, f, t, i), SendMessage, "WARNING"))
  ELSE list

\* Mutant of isUnbufferedMake: the argument count is not looked at.
isUnbufferedMakeAnyArgs(t, i) ==
  /\ t[Fun(t, i)].kind = "Ident"
  /\ t[Fun(t, i)].name = "make"
  /\ Len(Args(t, i)) > 0
  /\ t[Args(t, i)[1]].kind = "ChanType"

\* checkChannelCreation's test: make, a channel type first, nothing second.
isUnbufferedMake(t, i) ==
  /\ t[Fun(t, i)].kind = "Ident"
  /\ t[Fun(t, i)].name = "make"
  /\ Len(Args(t, i)) > 0
  /\ t[Args(t, i)[1]].kind = "ChanType"
  /\ Len(Args(t, i)) = 1

\* Analyzer.checkChannelCreation on node i; the value is the new issue list.
checkChannelCreation(b, f, t, i, list) ==
  IF isUnbufferedMake(t, i)
  THEN addIssue(list, Issue(IssuePos(b, f, t, i), MakeMessage, "INFO"))
  ELSE list

\* The type switch of analyze's callback on node i.
dispatch(b, f, t, i, nodes, list) ==
  CASE t[i].kind = "SendStmt" -> checkChannelSend(b, f, t, i, nodes, list)
    [] t[i].kind = "CallExpr" -> checkChannelCreation(b, f, t, i, list)
    [] OTHER -> list

IsRuleKind(k) == k \in {"SendStmt", "CallExpr"}

----------------------------------------------------------------------------
\* The state machine.

InitWith(b) ==
  /\ build = b
  /\ pc = "start"
  /\ file = 0
  /\ tree = <<>>
  /\ used = 0
  /\ caller = "none"
  /\ cur = 0
  /\ walk = <<>>
  /\ stack = <<>>
  /\ issues = <<>>
  /\ err = "none"
  /\ base = 0
  /\ runs = <<>>
  /\ invoked = 0
  /\ pushes = 0
  /\ pops = 0
  /\ lastPop = [left |-> 0, before |-> <<>>, after |-> <<>>]

Init == InitWith("cmd")
InitLegacy == InitWith("legacy")

analysis == <<cur, walk, stack, issues, base, runs, invoked, pushes, pops, lastPop>>

\* parser.ParseFile starts on file f for caller c.
BeginParse(f, c) ==
  /\ used < MaxNodes
  /\ pc' = "parse"
  /\ file' = f
  /\ tree' = <<Node("File", "", 0)>>
  /\ used' = used + 1
  /\ caller' = c
  /\ runs' = <<>>
  /\ UNCHANGED <<build, cur, walk, stack, issues, err, base, invoked, pushes, pops, lastPop>>

\* Mutant of FailParse: the callback logs the parse error and the walk goes on.
FailParseContinue(f) ==
  /\ pc' = "walk"
  /\ err' = "parse"
  /\ UNCHANGED <<build, file, tree, used, caller>>
  /\ UNCHANGED analysis

\* analyzeFile returns the parse error to its caller, which returns it too.
FailParse(f) ==
  /\ pc' = "error"
  /\ err' = "parse"
  /\ UNCHANGED <<build, file, tree, used, caller>>
  /\ UNCHANGED analysis

\* analyzePath: os.Stat fails.
AnalyzePathMissing ==
  /\ pc = "start"
  /\ pc' = "error"
  /\ err' = "stat"
  /\ UNCHANGED <<build, file, tree, used, caller>>
  /\ UNCHANGED analysis

\* analyzePath: the path is a directory, filepath.Walk begins.
AnalyzePathDir ==
  /\ pc = "start"
  /\ pc' = "walk"
  /\ UNCHANGED <<build, file, tree, used, caller, err>>
  /\ UNCHANGED analysis

\* analyzePath: the path is one file, handed to analyzeFile.
AnalyzePathFile ==
  /\ pc = "start"
  /\ \/ BeginParse(1, "path")
     \/ FailParse(1)

\* The walk's callback gets an entry it could not read: it returns the error.
WalkFnError ==
  /\ pc = "walk"
  /\ pc' = "error"
  /\ err' = "walk"
  /\ UNCHANGED <<build, file, tree, used, caller>>
  /\ UNCHANGED analysis

\* The callback gets a directory or a file not named *.go: nothing to do.
WalkFnSkip ==
  /\ pc = "walk"
  /\ UNCHANGED vars

\* The callback gets a .go file and calls analyzeFile.
WalkFnFile ==
  /\ pc = "walk"
  /\ file < MaxFiles
  /\ \/ BeginParse(file + 1, "walk")
     \/ FailParse(file + 1)

\* filepath.Walk has no entry left: analyzePath returns nil.
WalkReturn ==
  /\ pc = "walk"
  /\ pc' = "done"
  /\ UNCHANGED <<build, file, tree, used, caller, err>>
  /\ UNCHANGED analysis

\* The parser adds the next node in source order: below the last node or
\* below one of its ancestors, never below a leaf kind; identifiers and
\* channel types are kept only as operands of a call, where a rule can
\* see them.
ParseNode ==
  /\ pc = "parse"
  /\ used < MaxNodes
  /\ \E l \in Labels :
       \E k \in 1..Len(PathTo(tree, Len(tree))) :
         LET p == PathTo(tree, Len(tree))[k]
         IN /\ ~IsLeafKind(tree[p].kind)
            /\ IsLeafKind(l[1]) => tree[p].kind = "CallExpr"
            /\ tree' = Append(tree, Node(l[1], l[2], p))
  /\ used' = used + 1
  /\ UNCHANGED <<build, pc, file, caller, err>>
  /\ UNCHANGED analysis

\* analyze's first statements, on a tree that is there: the stack is reset
\* and ast.Inspect is about to call back on the root.
BeginAnalyze ==
  /\ pc' = "inspect"
  /\ stack' = <<>>
  /\ cur' = 0
  /\ walk' = <<>>
  /\ base' = Len(issues)
  /\ invoked' = 0
  /\ pushes' = 0
  /\ pops' = 0
  /\ UNCHANGED <<build, file, tree, used, issues, err, runs, lastPop>>

\* parser.ParseFile returns the tree without error; analyzeFile calls analyze.
ParseDone ==
  /\ pc = "parse"
  /\ WellFormed(tree)
  /\ BeginAnalyze
  /\ UNCHANGED caller

\* ast.Inspect calls back on the next node: the root, or the next child of
\* the node ast.Walk is in.  The callback pushes it and runs its rule.
InspectEnter ==
  /\ pc = "inspect"
  /\ cur < Len(tree)
  /\ IF walk = <<>> THEN cur = 0 ELSE tree[cur + 1].parent = walk[Len(walk)]
  /\ LET i == cur + 1
         nodes == push(build, stack, Ref(file, tree, i))
     IN /\ stack' = nodes
        /\ issues' = dispatch(build, file, tree, i, nodes, issues)
        /\ invoked' = invoked + (IF IsRuleKind(tree[i].kind) THEN 1 ELSE 0)
        /\ pushes' = pushes + (Len(nodes) - Len(stack))
        /\ walk' = Append(walk, i)
        /\ cur' = i
  /\ UNCHANGED <<build, pc, file, tree, used, caller, err, base, runs, pops, lastPop>>

\* Where control goes when analyze returns.
ReturnTo(c) == IF c = "walk" THEN "walk" ELSE "done"

\* The node ast.Walk is in has no child left: ast.Inspect calls back with
\* nil and the callback pops.  After the root's nil call ast.Inspect, analyze
\* and analyzeFile return.
InspectExit ==
  /\ pc = "inspect"
  /\ walk # <<>>
  /\ IF cur = Len(tree) THEN TRUE ELSE tree[cur + 1].parent # walk[Len(walk)]
  /\ LET nodes == IF Len(stack) > 0 THEN pop(stack) ELSE stack
     IN /\ stack' = nodes
        /\ pops' = pops + (Len(stack) - Len(nodes))
        /\ lastPop' = [left |-> walk[Len(walk)], before |-> stack, after |-> nodes]
  /\ walk' = SubSeq(walk, 1, Len(walk) - 1)
  /\ IF Len(walk) = 1
     THEN /\ pc' = ReturnTo(caller)
          /\ runs' = Append(runs, SubSeq(issues, base + 1, Len(issues)))
     ELSE UNCHANGED <<pc, runs>>
  /\ UNCHANGED <<build, file, tree, used, caller, cur, issues, err, base, invoked, pushes>>

\* After the scan the caller runs analyze once more on the tree it holds.
Reanalyze ==
  /\ pc = "done"
  /\ runs # <<>>
  /\ Len(runs) < MaxRuns
  /\ BeginAnalyze
  /\ caller' = "api"

\* After the scan the caller runs analyze(nil).  main.go returns at once.
\* channelcheck.go resets the stack and calls ast.Inspect, whose first
\* callback pushes the nil *ast.File; ast.Walk then reads its fields.
AnalyzeNil ==
  /\ pc = "done"
  /\ IF build = "cmd"
     THEN UNCHANGED <<pc, stack, base, invoked, pushes, pops>>
     ELSE /\ pc' = "panic"
          /\ stack' = push(build, <<>>, NilFile)
          /\ base' = Len(issues)
          /\ invoked' = 0
          /\ pushes' = 1
          /\ pops' = 0
  /\ UNCHANGED <<build, file, tree, used, caller, cur, walk, issues, err, runs, lastPop>>

Next ==
  \/ AnalyzePathMissing
  \/ AnalyzePathDir
  \/ AnalyzePathFile
  \/ WalkFnError
  \/ WalkFnSkip
  \/ WalkFnFile
  \/ WalkReturn
  \/ ParseNode
  \/ ParseDone
  \/ InspectEnter
  \/ InspectExit
  \/ Reanalyze
  \/ AnalyzeNil

Spec == Init /\ [][Next]_vars
SpecLegacy == InitLegacy /\ [][Next]_vars

----------------------------------------------------------------------------
\* Properties.

\* A traversal of `tree` has completed and no later file is being parsed.
Analysed == pc \in {"walk", "done", "error"} /\ runs # <<>>

\* The issues the current (or latest) analyze call appended.
Appended == SubSeq(issues, base + 1, Len(issues))

\* The source range of node i of the current file: from the node's first
\* offset to the offset right after its last descendant.
RangeOf(i) == [Filename |-> file, Start |-> i, End |-> LastOf(tree, i) + 1]

Sends == { i \in 1..Len(tree) : tree[i].kind = "SendStmt" }
Calls == { i \in 1..Len(tree) : tree[i].kind = "CallExpr" }
UnderSelect(i) == \E a \in Ancestors(tree, i) : tree[a].kind = "SelectStmt"

\* Indexes of the issues of list q located at node i.
At(q, i) == { k \in 1..Len(q) : q[k].Pos = RangeOf(i) }
WarningsAt(q, i) == { k \in At(q, i) : q[k].Severity = "WARNING" }

SendUnderSelectSilent ==
  Analysed =>
    /\ \A i \in Sends : UnderSelect(i) => WarningsAt(issues, i) = {}
    /\ Cardinality({ k \in 1..Len(Appended) : Appended[k].Severity = "WARNING" })
         = Cardinality({ i \in Sends : ~UnderSelect(i) })

\* C2 witness: one send below a block inside a select, another send outside
\* it, and a single WARNING, at the outside send.
SendUnderSelectWitness ==
  /\ Analysed
  /\ \E i, j \in Sends :
       /\ UnderSelect(i)
       /\ tree[tree[i].parent].kind # "SelectStmt"
       /\ ~UnderSelect(j)
       /\ { k \in 1..Len(issues) : issues[k].Severity = "WARNING" } = WarningsAt(issues, j)
       /\ Cardinality(WarningsAt(issues, j)) = 1

\* The call i is make with a channel type as its first argument.
IsMakeChan(i) ==
  /\ tree[Fun(tree, i)].kind = "Ident"
  /\ tree[Fun(tree, i)].name = "make"
  /\ Args(tree, i) # <<>>
  /\ tree[Args(tree, i)[1]].kind = "ChanType"

StackIsPathToNode ==
  pc = "inspect" =>
    IF walk = <<>> THEN stack = <<>>
    ELSE LET path == PathTo(tree, walk[Len(walk)])
         IN stack = [k \in 1..Len(path) |-> Ref(file, tree, path[k])]

\* C4 witness: the walk is in a node whose earlier sibling had children, all
\* of them entered and left by now.
StackIsPathWitness ==
  /\ pc = "inspect"
  /\ walk # <<>>
  /\ \E j \in 1..cur :
       /\ j \notin { walk[k] : k \in 1..Len(walk) }
       /\ tree[j].parent = tree[walk[Len(walk)]].parent
       /\ EndOf(tree, j) > j + 1
  /\ Len(stack) = 2

\* C5: every node entered was pushed once, every node left was popped once
\* and the pop took that node itself off the stack after its whole subtree
\* had been entered; when the traversal completes the stack is empty and
\* pushes and pops both equal the number of nodes.
PushPopPaired ==
  /\ pc = "inspect" =>
       /\ pushes = cur
       /\ pops = cur - Len(walk)
       /\ Len(stack) = pushes - pops
  /\ (pc = "inspect" \/ Analysed) /\ pops > 0 =>
       /\ lastPop.before = Append(lastPop.after, Ref(file, tree, lastPop.left))
       /\ EndOf(tree, lastPop.left) <= cur + 1
  /\ Analysed => stack = <<>> /\ pushes = Len(tree) /\ pops = Len(tree)

\* C5 witness: a traversal of a tree three levels deep has completed.
PushPopWitness ==
  /\ Analysed
  /\ \E i \in 1..Len(tree) : Len(PathTo(tree, i)) = 3
  /\ pops = Len(tree)
  /\ stack = <<>>

\* True while analyzePath is scanning, at the first callback of a file.
AtFileStart == pc = "inspect" /\ cur = 0 /\ caller # "api"

\* C6 as claimed: every file's traversal starts with an empty parent stack
\* and an empty issue list.
FreshStackAndIssuesPerFile == AtFileStart => stack = <<>> /\ issues = <<>>

\* C6 as amended: every file's traversal starts with an empty parent stack
\* and only nodes of the file being traversed are ever on it; the issue list
\* is not reset: at a file's start it holds the issues of the earlier files
\* and no others, and during the scan it stays grouped by file in walk
\* order.
FreshStackSharedIssues ==
  /\ AtFileStart =>
       /\ stack = <<>>
       /\ \A k \in 1..Len(issues) : issues[k].Pos.Filename < file
  /\ pc = "inspect" => \A k \in 1..Len(stack) : stack[k].file = file
  /\ caller # "api" =>
       \A j, k \in 1..Len(issues) :
         j < k => issues[j].Pos.Filename <= issues[k].Pos.Filename

\* C6 witness: the second file's traversal starts with the first file's
\* issues in the list.
SharedIssuesWitness == AtFileStart /\ file = 2 /\ Len(issues) = 2

AnalyzeNilIsNoOp ==
  [][ pc = "done" /\ pc' # "inspect" =>
        pc' = "done" /\ issues' = issues /\ stack' = stack /\ invoked' = invoked ]_vars

\* C10: a parse failure is what analyzePath returns, nothing runs after it,
\* the failing file leaves no issue and the stack stays empty, and the list
\* is as the last analysed file left it.
ParseFailureHaltsScan ==
  err = "parse" =>
    /\ pc = "error"
    /\ ~ENABLED Next
    /\ stack = <<>>
    /\ \A k \in 1..Len(issues) : issues[k].Pos.Filename <= file
    /\ issues = SubSeq(issues, 1, base) \o (IF runs = <<>> THEN <<>> ELSE runs[Len(runs)])

\* C10 witness: the second file fails to parse after the first file left
\* two issues.
ParseFailureWitness ==
  /\ pc = "error"
  /\ err = "parse"
  /\ file = 1
  /\ Len(issues) = 2

====
